---------------------------- MODULE Spec2Model ----------------------------
(***************************************************************************)
(* A model of sqllineage's LineageRunner (src/sqllineage/runner.py): the   *)
(* lazily evaluated orchestrator that splits SQL text, analyzes every      *)
(* statement, aggregates the per-statement holders into one                *)
(* SQLLineageHolder and answers the lineage accessors from it.             *)
(*                                                                         *)
(* runner.py is modelled from its code.  The collaborators it imports      *)
(* (split, trim_comment, the analyzers, SQLLineageHolder, to_cytoscape,    *)
(* the metadata provider) are modelled from the design document, sections  *)
(* 3, 4 and 6.                                                             *)
(***************************************************************************)
EXTENDS Integers, Sequences, FiniteSets, TLC

VARIABLES
    sql,                \* self._sql: the raw SQL text, a sequence of tokens
    dialect,            \* self._dialect
    verbose,            \* self._verbose
    metadata_provider,  \* self._metadata_provider: table -> column names
    TSQL_NO_SEMICOLON,  \* SQLLineageConfig.TSQL_NO_SEMICOLON
    hashseed,           \* the process's hash seed, as the order in which it
                        \* makes each set of paths of the run iterate
    draw_options,       \* self._draw_options: the set of keys it holds
    evaluated,          \* self._evaluated
    stmt,               \* self._stmt
    stmt_holders,       \* self._stmt_holders (<<>> while the attribute is unset)
    sql_holder,         \* self._sql_holder (NoHolder while the attribute is unset)
    warned,             \* the warnings emitted so far, by category
    evalCount,          \* observer: how many times _eval has been entered
    consulted,          \* observer: the analyzer implementations _eval has used
    accessed,           \* observer: some lazy accessor has been called
    lastCall,           \* observer: the key of the last public call
    result,             \* observer: what the last public call returned or raised
    watch,              \* observer: the accessor whose first result is kept
    first,              \* observer: what the first call of `watch` returned
    repeated,           \* observer: `watch` has been called again since
    pc,                 \* concurrent callers: where each caller stands
    local               \* concurrent callers: what each caller's frame holds

vars == <<sql, dialect, verbose, metadata_provider, TSQL_NO_SEMICOLON,
          hashseed, draw_options, evaluated, stmt, stmt_holders, sql_holder, warned,
          evalCount, consulted, accessed, lastCall, result, watch, first,
          repeated, pc, local>>

config ==
    <<sql, dialect, verbose, metadata_provider, TSQL_NO_SEMICOLON, hashseed>>

(***************************************************************************)
(* Bounds of the model.                                                    *)
(***************************************************************************)
MaxSegments == 2    \* segments of SQL text in the life-cycle runs
MaxEvals == 3       \* runs of _eval on one runner
MaxRun == 3         \* statements of a run in the table classification runs
MaxColRun == 3      \* statements of a run in the column lineage runs
MaxWildRun == 2     \* statements of a run in the wildcard runs
NumCallers == 2     \* concurrent callers of one runner

(***************************************************************************)
(* Identifiers and their canonical strings.  A Table is identified by its  *)
(* canonical string schema.table; a Column by its owner and its name.  The *)
(* canonical string is kept as the sequence of its character codes, so     *)
(* that sorting compares what Python's str comparison compares.            *)
(***************************************************************************)
SQLPARSE_DIALECT == "non-validating"

Tables ==
    {"<default>.tab1", "<default>.tab2", "<default>.tab3",
     "dwd.main_transactions_stg"}

SubQueries == {"sq"}

ColNames == {"a", "b", "id"}

Star == "*"

Chars(s) ==
    CASE s = "<default>.tab1" ->
            <<60, 100, 101, 102, 97, 117, 108, 116, 62, 46, 116, 97, 98, 49>>
      [] s = "<default>.tab2" ->
            <<60, 100, 101, 102, 97, 117, 108, 116, 62, 46, 116, 97, 98, 50>>
      [] s = "<default>.tab3" ->
            <<60, 100, 101, 102, 97, 117, 108, 116, 62, 46, 116, 97, 98, 51>>
      [] s = "dwd.main_transactions_stg" ->
            <<100, 119, 100, 46, 109, 97, 105, 110, 95, 116, 114, 97, 110, 115,
              97, 99, 116, 105, 111, 110, 115, 95, 115, 116, 103>>
      [] s = "dwd.main_transactions_stg.id" ->
            <<100, 119, 100, 46, 109, 97, 105, 110, 95, 116, 114, 97, 110, 115,
              97, 99, 116, 105, 111, 110, 115, 95, 115, 116, 103, 46, 105, 100>>
      [] s = "id" -> <<105, 100>>
      [] s = "sq" -> <<115, 113>>
      [] s = "a" -> <<97>>
      [] s = "b" -> <<98>>
      [] s = "*" -> <<42>>
      [] s = "." -> <<46>>

Col(p, n) == [parent |-> p, name |-> n]

Columns == {Col(p, n) : p \in Tables \cup SubQueries, n \in ColNames \cup {Star}}

\* str(table)
TableStr(t) == Chars(t)

\* str(column): the owner's canonical string, a dot, the column's name
ColumnStr(c) == Chars(c.parent) \o Chars(".") \o Chars(c.name)

\* a column whose owner is a subquery, not a physical table
IsSubqueryColumn(c) == c.parent \in SubQueries

Range(s) == {s[i] : i \in DOMAIN s}

\* Python's < on two strings: lexicographic on the code points
RECURSIVE StrLess(_, _)
StrLess(a, b) ==
    IF b = <<>> THEN FALSE
    ELSE IF a = <<>> THEN TRUE
    ELSE IF Head(a) # Head(b) THEN Head(a) < Head(b)
    ELSE StrLess(Tail(a), Tail(b))

\* Python's < on two tuples of strings
RECURSIVE KeyLess(_, _)
KeyLess(k, l) ==
    IF l = <<>> THEN FALSE
    ELSE IF k = <<>> THEN TRUE
    ELSE IF Head(k) # Head(l) THEN StrLess(Head(k), Head(l))
    ELSE KeyLess(Tail(k), Tail(l))


(***************************************************************************)
(* SQL text.  The text is a sequence of tokens: a statement body, the      *)
(* statement terminator, a comment, or white space.  A statement body is   *)
(* described by what an analyzer makes of it: the analyzers able to parse  *)
(* it, the tables it reads and writes, its column derivation edges and its *)
(* wildcard placeholders <<S, T>> (SELECT * FROM S written into T).  A      *)
(* token also carries the length of its text: the number of its            *)
(* characters, and how many of them are newlines.                          *)
(***************************************************************************)
AnalyzerNames == {"sqlparse", "sqlfluff"}

Token(kind, parsers, read, write, edges, wild) ==
    [kind |-> kind, parsers |-> parsers, read |-> read, write |-> write,
     edges |-> edges, wild |-> wild, chars |-> 1, newlines |-> 0]

Semi == Token("semi", {}, {}, {}, {}, {})

WhiteSpace == Token("ws", {}, {}, {}, {}, {})

Comment == Token("comment", {}, {}, {}, {}, {})

\* a statement body written on one line, of the 35 characters of
\* "insert into tab2 select a from tab1"
Body(parsers, read, write, edges, wild) ==
    [Token("stmt", parsers, read, write, edges, wild) EXCEPT !.chars = 35]

\* the body b written with n characters, k of them newlines
Padded(b, n, k) == [b EXCEPT !.chars = n, !.newlines = k]

IsBody(t) == t.kind = "stmt"

HasBody(piece) == \E i \in DOMAIN piece : IsBody(piece[i])

\* str.strip(): leading and trailing white space removed
RECURSIVE LStrip(_)
LStrip(text) ==
    IF text # <<>> /\ Head(text).kind = "ws" THEN LStrip(Tail(text)) ELSE text

RECURSIVE RStrip(_)
RStrip(text) ==
    IF text # <<>> /\ text[Len(text)].kind = "ws"
    THEN RStrip(SubSeq(text, 1, Len(text) - 1))
    ELSE text

strip(text) == RStrip(LStrip(text))

\* a piece becomes a statement when it holds a statement body
Flush(cur, out) == IF HasBody(cur) THEN Append(out, cur) ELSE out

\* sqllineage.utils.helpers.split: statements end at the terminator
RECURSIVE SplitFrom(_, _, _)
SplitFrom(rest, cur, out) ==
    IF rest = <<>> THEN Flush(cur, out)
    ELSE IF Head(rest).kind = "semi"
         THEN SplitFrom(Tail(rest), <<>>, Flush(cur, out))
         ELSE SplitFrom(Tail(rest), Append(cur, Head(rest)), out)

split(text) == SplitFrom(text, <<>>, <<>>)

\* analyzer.split_tsql: batch mode, a statement also ends where the next
\* statement body begins, terminator or not
RECURSIVE SplitTsqlFrom(_, _, _)
SplitTsqlFrom(rest, cur, out) ==
    IF rest = <<>> THEN Flush(cur, out)
    ELSE IF Head(rest).kind = "semi"
         THEN SplitTsqlFrom(Tail(rest), <<>>, Flush(cur, out))
         ELSE IF IsBody(Head(rest)) /\ HasBody(cur)
              THEN SplitTsqlFrom(Tail(rest), <<Head(rest)>>, Flush(cur, out))
              ELSE SplitTsqlFrom(Tail(rest), Append(cur, Head(rest)), out)

split_tsql(text) == SplitTsqlFrom(text, <<>>, <<>>)

\* sqllineage.utils.helpers.trim_comment: the statement without its comments
\* and surrounding white space
NotComment(t) == t.kind # "comment"

trim_comment(s) == strip(SelectSeq(s, NotComment))

\* len(text)
RECURSIVE TextLen(_)
TextLen(text) ==
    IF text = <<>> THEN 0 ELSE Head(text).chars + TextLen(Tail(text))

\* text.replace("\n", ""): every token without its newlines, and no token
\* that was newlines only
NoNewlines(text) ==
    LET flat(t) == [t EXCEPT !.chars = @ - t.newlines, !.newlines = 0]
        shown(t) == t.chars > 0
    IN  SelectSeq([i \in DOMAIN text |-> flat(text[i])], shown)

\* text[:n]: the first n characters of the text; the token the cut falls
\* in is kept with its characters before the cut
RECURSIVE Slice(_, _)
Slice(text, n) ==
    IF text = <<>> \/ n <= 0 THEN <<>>
    ELSE LET t == Head(text)
         IN  IF t.chars <= n THEN <<t>> \o Slice(Tail(text), n - t.chars)
             ELSE <<[t EXCEPT !.chars = n]>>

\* runner.py lines 95-97: the statement on one line, cut after 50
\* characters and followed by the three characters "..."
stmt_short(statement) ==
    LET flat == NoNewlines(statement)
        dots == [Token("...", {}, {}, {}, {}, {}) EXCEPT !.chars = 3]
    IN  IF TextLen(flat) > 50 THEN Append(Slice(flat, 50), dots) ELSE flat

(***************************************************************************)
(* DialectAnalyzer.analyze: one statement string to its lineage holder, or *)
(* ParseError when the statement cannot be parsed by this analyzer: it     *)
(* holds a body the analyzer does not parse, or two bodies run together.   *)
(***************************************************************************)
StatementHolder(b) ==
    [read |-> b.read, write |-> b.write, edges |-> b.edges, wild |-> b.wild]

analyze(analyzer, s) ==
    LET bodies == SelectSeq(s, IsBody)
    IN  IF Len(bodies) = 1 /\ analyzer \in bodies[1].parsers
        THEN [raised |-> "none", holder |-> StatementHolder(bodies[1])]
        ELSE [raised |-> "ParseError", holder |-> <<>>]

(***************************************************************************)
(* MetadataProvider: columnsOf(table) is the table's column names, or a    *)
(* miss (SchemaNotFound / TableNotFound) when the catalog has no entry.    *)
(* A provider is a function from the tables it knows to their columns.     *)
(***************************************************************************)
DummyMetaDataProvider == [t \in {} |-> <<>>]

HasEntry(provider, t) == t \in DOMAIN provider

columnsOf(provider, t) == provider[t]

(***************************************************************************)
(* LineageAggregator (SQLLineageHolder.of): a left fold over the           *)
(* statement holders in statement order.  Index 0 stands for "never".      *)
(***************************************************************************)
NoHolder == [present |-> FALSE]

\* the per-run lookup cache starts empty: no table asked for, no answer
\* kept, no call of columnsOf made
EmptyHolder ==
    [present |-> TRUE,
     earliest_write |-> [t \in Tables |-> 0],
     latest_read |-> [t \in Tables |-> 0],
     table_edges |-> {},
     column_edges |-> {},
     asked |-> {},
     answers |-> [t \in {} |-> <<>>],
     lookups |-> [t \in Tables |-> 0]]

\* step 3: a wildcard placeholder is expanded from the provider's answer,
\* or kept as an explicit unresolved placeholder edge
ExpandWildcard(provider, w) ==
    IF HasEntry(provider, w[1])
    THEN {<<Col(w[1], c), Col(w[2], c)>> : c \in Range(columnsOf(provider, w[1]))}
    ELSE {<<Col(w[1], Star), Col(w[2], Star)>>}

\* the cache after the provider was asked for the tables in `new`: the
\* answers it gave, kept by table
Answers(provider, h, new) ==
    [t \in DOMAIN h.answers \cup {x \in new : HasEntry(provider, x)} |->
        IF t \in DOMAIN h.answers THEN h.answers[t] ELSE columnsOf(provider, t)]

\* AddStatement with a cache that keeps the answers of the provider only:
\* a table whose lookup failed is looked up again at its next reference
AddStatement_cache_answers_only(provider, h, f, i) ==
    LET new == {w[1] : w \in f.wild} \ DOMAIN h.answers
        answers == Answers(provider, h, new)
    IN  [present |-> TRUE,
         earliest_write |->
            [t \in Tables |->
                IF t \in f.write /\ h.earliest_write[t] = 0
                THEN i ELSE h.earliest_write[t]],
         latest_read |->
            [t \in Tables |-> IF t \in f.read THEN i ELSE h.latest_read[t]],
         table_edges |-> h.table_edges \cup (f.read \X f.write),
         column_edges |->
            h.column_edges \cup f.edges
                \cup UNION {ExpandWildcard(answers, w) : w \in f.wild},
         asked |-> h.asked \cup new,
         answers |-> answers,
         lookups |->
            [t \in Tables |-> h.lookups[t] + (IF t \in new THEN 1 ELSE 0)]]

\* steps 1 to 4 for the statement at index i.  The provider is called for
\* the wildcard tables not asked for before in this run; every wildcard is
\* expanded from the cached answers.
AddStatement(provider, h, f, i) ==
    LET new == {w[1] : w \in f.wild} \ h.asked
        answers == Answers(provider, h, new)
    IN  [present |-> TRUE,
         earliest_write |->
            [t \in Tables |->
                IF t \in f.write /\ h.earliest_write[t] = 0
                THEN i ELSE h.earliest_write[t]],
         latest_read |->
            [t \in Tables |-> IF t \in f.read THEN i ELSE h.latest_read[t]],
         table_edges |-> h.table_edges \cup (f.read \X f.write),
         column_edges |->
            h.column_edges \cup f.edges
                \cup UNION {ExpandWildcard(answers, w) : w \in f.wild},
         asked |-> h.asked \cup new,
         answers |-> answers,
         lookups |->
            [t \in Tables |-> h.lookups[t] + (IF t \in new THEN 1 ELSE 0)]]

RECURSIVE FoldHolders(_, _, _, _)
FoldHolders(provider, h, holders, i) ==
    IF i > Len(holders) THEN h
    ELSE FoldHolders(provider, AddStatement(provider, h, holders[i], i),
                     holders, i + 1)

SQLLineageHolder_of(provider, holders) ==
    FoldHolders(provider, EmptyHolder, holders, 1)

(***************************************************************************)
(* Table classification, a final pass over the earliest-write and          *)
(* latest-read indices.                                                    *)
(***************************************************************************)
Written(h, t) == h.earliest_write[t] # 0

ReadAt(h, t) == h.latest_read[t] # 0

\* written, and read by a later statement
holder_intermediate_tables(h) ==
    {t \in Tables : Written(h, t) /\ h.earliest_write[t] < h.latest_read[t]}

\* read, never written
holder_source_tables(h) ==
    {t \in Tables : ReadAt(h, t) /\ ~Written(h, t)}

\* written, never read afterwards
holder_target_tables(h) ==
    {t \in Tables : Written(h, t) /\ ~(h.earliest_write[t] < h.latest_read[t])}

(***************************************************************************)
(* The graphs of the aggregated holder.                                    *)
(***************************************************************************)
TableNodes(h) == {t \in Tables : Written(h, t) \/ ReadAt(h, t)}

ColumnNodes(h) ==
    {e[1] : e \in h.column_edges} \cup {e[2] : e \in h.column_edges}

Preds(edges, c) == {e[1] : e \in {x \in edges : x[2] = c}}

Succs(edges, c) == {e[2] : e \in {x \in edges : x[1] = c}}

\* ultimate source / target columns: no incoming / outgoing lineage edge
TargetColumns(h) == {c \in ColumnNodes(h) : Succs(h.column_edges, c) = {}}

\* the traversal cut off by the length of the path instead of the columns
\* visited on it
RECURSIVE BackwardPaths_by_depth(_, _)
BackwardPaths_by_depth(edges, path) ==
    IF Preds(edges, Head(path)) = {} THEN {path}
    ELSE IF Len(path) >= 4 THEN {}
    ELSE UNION {BackwardPaths_by_depth(edges, <<p>> \o path) :
                    p \in Preds(edges, Head(path))}

\* the backward traversal: every simple path from an ultimate source to the
\* head of `path`; a column already on the path ends the branch
RECURSIVE BackwardPaths(_, _)
BackwardPaths(edges, path) ==
    IF Preds(edges, Head(path)) = {} THEN {path}
    ELSE UNION {BackwardPaths(edges, <<p>> \o path) :
                    p \in Preds(edges, Head(path)) \ Range(path)}

holder_get_column_lineage(h, exclude_subquery) ==
    LET all == UNION {BackwardPaths(h.column_edges, <<t>>) : t \in TargetColumns(h)}
    IN  IF exclude_subquery
        THEN {p \in all : ~IsSubqueryColumn(Head(p))}
        ELSE all

(***************************************************************************)
(* GraphExporter (sqllineage.io.to_cytoscape): a graph to its node / edge  *)
(* interchange form.  A node carries its id (the canonical string) and, in *)
(* compound mode, its owner's id; an edge its source, target and type.     *)
(***************************************************************************)
NoParent == <<>>

export_table_graph(nodes, edges) ==
    [nodes |-> {[id |-> TableStr(t), parent |-> NoParent] : t \in nodes},
     edges |-> {[source |-> TableStr(e[1]), target |-> TableStr(e[2]),
                 type |-> "lineage"] : e \in edges}]

\* compound = True: the owners are nodes, every column names its owner
export_column_graph(columns, edges) ==
    [nodes |->
        {[id |-> ColumnStr(c), parent |-> Chars(c.parent)] : c \in columns}
            \cup {[id |-> Chars(c.parent), parent |-> NoParent] : c \in columns},
     edges |->
        {[source |-> ColumnStr(e[1]), target |-> ColumnStr(e[2]),
          type |-> "lineage"] : e \in edges}
            \cup {[source |-> Chars(c.parent), target |-> ColumnStr(c),
                   type |-> "has_column"] : c \in columns}]

\* networkx.ancestors restricted to columns: every column with a path to c
RECURSIVE AncestorsFrom(_, _, _)
AncestorsFrom(edges, frontier, seen) ==
    LET new == (UNION {Preds(edges, c) : c \in frontier}) \ seen
    IN  IF new = {} THEN seen ELSE AncestorsFrom(edges, new, seen \cup new)

Ancestors(edges, c) == AncestorsFrom(edges, {c}, {})

(***************************************************************************)
(* sorted(iterable, key=...).  The holder hands the runner sets; sorted()  *)
(* reads a set in its iteration order and sorts stably: elements with      *)
(* equal keys stay in the order they were read in.  The order a set        *)
(* iterates in is not specified; in one process it is settled by the hash  *)
(* seed, so that the same set is read in the same order every time.        *)
(***************************************************************************)
TableKey(t) == <<TableStr(t)>>

\* the key with its two parts exchanged: source column first
PathKey_source_first(p) == <<ColumnStr(p[1]), ColumnStr(p[Len(p)])>>

\* runner.py line 172: key=lambda x: (str(x[-1]), str(x[0]))
PathKey(p) == <<ColumnStr(p[Len(p)]), ColumnStr(p[1])>>

\* every order a set can be iterated in
RECURSIVE IterationOrders(_)
IterationOrders(S) ==
    IF S = {} THEN {<<>>}
    ELSE UNION {{<<x>> \o o : o \in IterationOrders(S \ {x})} : x \in S}

\* x put behind every element of the sorted sequence whose key is not greater
InsertStable(out, x) ==
    LET n == Cardinality({i \in DOMAIN out : ~KeyLess(x.key, out[i].key)})
    IN  SubSeq(out, 1, n) \o <<x>> \o SubSeq(out, n + 1, Len(out))

RECURSIVE sorted(_)
sorted(items) ==
    IF items = <<>> THEN <<>>
    ELSE InsertStable(sorted(SubSeq(items, 1, Len(items) - 1)),
                      items[Len(items)])

\* runner.py lines 148, 155, 162 on the iteration order `order`
SortedTables(order) ==
    LET out == sorted([i \in DOMAIN order |->
                        [key |-> TableKey(order[i]), val |-> order[i]]])
    IN  [i \in DOMAIN out |-> out[i].val]

\* runner.py lines 170-173 on the iteration order `order`
SortedPaths(order) ==
    LET out == sorted([i \in DOMAIN order |->
                        [key |-> PathKey(order[i]), val |-> order[i]]])
    IN  [i \in DOMAIN out |-> out[i].val]

\* The iteration orders of a set of paths that sorted() can tell apart:
\* the paths by non-decreasing key, those of equal key in every order.
\* Each stands for the iteration orders that sort to it.
RECURSIVE ReadingOrders(_)
ReadingOrders(S) ==
    IF S = {} THEN {<<>>}
    ELSE LET least == {x \in S : \A y \in S : ~KeyLess(PathKey(y), PathKey(x))}
         IN  UNION {{<<x>> \o o : o \in ReadingOrders(S \ {x})} : x \in least}

\* the order in which this process iterates the set S: the one its hash
\* seed settles, and some order when S is not a set of paths of the run
Iterate(S) ==
    IF S \in DOMAIN hashseed THEN hashseed[S]
    ELSE CHOOSE o \in ReadingOrders(S) : TRUE

\* table keys are the tables' canonical strings, one per table: no two
\* elements have equal keys and every iteration order sorts to one list
RECURSIVE SortTables(_)
SortTables(S) ==
    IF S = {} THEN <<>>
    ELSE LET m == CHOOSE x \in S : \A y \in S : ~KeyLess(TableKey(y), TableKey(x))
         IN  <<m>> \o SortTables(S \ {m})

\* runner.py lines 170-173: the set read in its iteration order and sorted
SortPaths(S) == SortedPaths(Iterate(S))

(***************************************************************************)
(* LineageRunner.  The mutable fields of one runner are gathered in a      *)
(* record so that a method can be written as a function from the runner's  *)
(* state to its next state and the value returned (or exception raised).   *)
(***************************************************************************)
Self ==
    [evaluated |-> evaluated, stmt |-> stmt, stmt_holders |-> stmt_holders,
     sql_holder |-> sql_holder, draw_options |-> draw_options,
     warned |-> warned, evalCount |-> evalCount, consulted |-> consulted]

Return(v) == [kind |-> "return", val |-> v]

Raise(e) == [kind |-> "raise", val |-> e]

None == [kind |-> "none", val |-> <<>>]

Uncalled == [kind |-> "uncalled", val |-> <<>>]

\* equality of two outcomes; the values are compared only when both are
\* of the same kind
Same(r1, r2) == r1.kind = r2.kind /\ r1.val = r2.val

Outcome(s, r) == [self |-> s, result |-> r]

\* runner.py lines 189-193
Analyzer == IF dialect = SQLPARSE_DIALECT THEN "sqlparse" ELSE "sqlfluff"

\* SplitStep choosing the batch splitter by the flag alone, whatever the
\* dialect (the warning is still emitted)
SplitStep_flag_only(s) ==
    IF TSQL_NO_SEMICOLON
    THEN [s EXCEPT !.stmt = split_tsql(strip(sql)),
                   !.evalCount = @ + 1,
                   !.consulted = @ \cup {Analyzer},
                   !.warned = IF dialect # "tsql"
                              THEN @ \cup {"TSQL_NO_SEMICOLON ignored"}
                              ELSE @]
    ELSE [s EXCEPT !.stmt = split(strip(sql)),
                   !.evalCount = @ + 1,
                   !.consulted = @ \cup {Analyzer}]

\* runner.py lines 189-201: the analyzer made for the run, the statement
\* list and the advisory warning
SplitStep(s) ==
    IF TSQL_NO_SEMICOLON /\ dialect = "tsql"
    THEN [s EXCEPT !.stmt = split_tsql(strip(sql)),
                   !.evalCount = @ + 1,
                   !.consulted = @ \cup {Analyzer}]
    ELSE [s EXCEPT !.stmt = split(strip(sql)),
                   !.evalCount = @ + 1,
                   !.consulted = @ \cup {Analyzer},
                   !.warned = IF TSQL_NO_SEMICOLON /\ dialect # "tsql"
                              THEN @ \cup {"TSQL_NO_SEMICOLON ignored"}
                              ELSE @]

\* AnalyzeStep with a statement that fails to parse skipped instead of
\* the error being raised
AnalyzeStep_skip(s) ==
    LET an == [i \in 1..Len(s.stmt) |-> analyze(Analyzer, s.stmt[i])]
        ok(a) == a.raised = "none"
        kept == SelectSeq(an, ok)
    IN  [self |-> [s EXCEPT !.stmt_holders =
                        [i \in 1..Len(kept) |-> kept[i].holder]],
         raised |-> "none"]

\* AnalyzeStep falling back to the other implementation for a statement
\* the run's analyzer cannot parse
AnalyzeStep_fallback(s) ==
    LET other == CHOOSE a \in AnalyzerNames : a # Analyzer
        failed(i) == analyze(Analyzer, s.stmt[i]).raised # "none"
        an == [i \in 1..Len(s.stmt) |->
                IF failed(i) THEN analyze(other, s.stmt[i])
                ELSE analyze(Analyzer, s.stmt[i])]
        used == IF \E i \in DOMAIN an : failed(i)
                THEN s.consulted \cup {other} ELSE s.consulted
    IN  IF \E i \in DOMAIN an : an[i].raised # "none"
        THEN [self |-> [s EXCEPT !.consulted = used], raised |-> "ParseError"]
        ELSE [self |-> [s EXCEPT !.stmt_holders =
                            [i \in 1..Len(an) |-> an[i].holder],
                                 !.consulted = used],
              raised |-> "none"]

\* runner.py line 203: every statement analyzed, in order; the first
\* ParseError leaves the comprehension before the attribute is assigned
AnalyzeStep(s) ==
    LET an == [i \in 1..Len(s.stmt) |-> analyze(Analyzer, s.stmt[i])]
    IN  IF \E i \in DOMAIN an : an[i].raised # "none"
        THEN [self |-> s, raised |-> "ParseError"]
        ELSE [self |-> [s EXCEPT !.stmt_holders =
                            [i \in 1..Len(an) |-> an[i].holder]],
              raised |-> "none"]

\* AggregateStep aggregating without the runner's metadata provider
AggregateStep_no_provider(s) ==
    [s EXCEPT !.sql_holder =
        SQLLineageHolder_of(DummyMetaDataProvider, s.stmt_holders)]

\* AggregateStep leaving out every statement holder with a wildcard whose
\* table the provider does not know
AggregateStep_drop_failed(s) ==
    LET known(f) == \A w \in f.wild : HasEntry(metadata_provider, w[1])
    IN  [s EXCEPT !.sql_holder =
            SQLLineageHolder_of(metadata_provider,
                                SelectSeq(s.stmt_holders, known))]

\* runner.py lines 204-206
AggregateStep(s) ==
    [s EXCEPT !.sql_holder =
        SQLLineageHolder_of(metadata_provider, s.stmt_holders)]

\* runner.py line 207
FlagStep(s) == [s EXCEPT !.evaluated = TRUE]

\* _eval setting the flag before the statements are analyzed
_eval_flag_first(s) ==
    LET a == AnalyzeStep(FlagStep(SplitStep(s)))
    IN  IF a.raised # "none" THEN a
        ELSE [self |-> AggregateStep(a.self), raised |-> "none"]

\* runner.py lines 188-207
_eval(s) ==
    LET a == AnalyzeStep(SplitStep(s))
    IN  IF a.raised # "none" THEN a
        ELSE [self |-> FlagStep(AggregateStep(a.self)), raised |-> "none"]

\* an attribute that was never assigned raises AttributeError
HolderMissing(s) == ~s.sql_holder.present

statements(s) ==
    Outcome(s, Return([i \in 1..Len(s.stmt) |-> trim_comment(s.stmt[i])]))

\* source_tables reading the holder's target_tables
source_tables_of_target(s) ==
    IF HolderMissing(s) THEN Outcome(s, Raise("AttributeError"))
    ELSE Outcome(s, Return(SortTables(holder_target_tables(s.sql_holder))))

\* target_tables reading the holder's source_tables
target_tables_of_source(s) ==
    IF HolderMissing(s) THEN Outcome(s, Raise("AttributeError"))
    ELSE Outcome(s, Return(SortTables(holder_source_tables(s.sql_holder))))

\* intermediate_tables reading the holder's target_tables
intermediate_tables_of_target(s) ==
    IF HolderMissing(s) THEN Outcome(s, Raise("AttributeError"))
    ELSE Outcome(s, Return(SortTables(holder_target_tables(s.sql_holder))))

source_tables(s) ==
    IF HolderMissing(s) THEN Outcome(s, Raise("AttributeError"))
    ELSE Outcome(s, Return(SortTables(holder_source_tables(s.sql_holder))))

target_tables(s) ==
    IF HolderMissing(s) THEN Outcome(s, Raise("AttributeError"))
    ELSE Outcome(s, Return(SortTables(holder_target_tables(s.sql_holder))))

intermediate_tables(s) ==
    IF HolderMissing(s) THEN Outcome(s, Raise("AttributeError"))
    ELSE Outcome(s, Return(SortTables(holder_intermediate_tables(s.sql_holder))))

\* get_column_lineage returning the (source, target) pair of every path
get_column_lineage_pairs(s, exclude_subquery) ==
    IF HolderMissing(s) THEN Outcome(s, Raise("AttributeError"))
    ELSE Outcome(s, Return(SortPaths(
            {<<p[1], p[Len(p)]>> :
                p \in holder_get_column_lineage(s.sql_holder, exclude_subquery)})))

\* get_column_lineage not handing its argument on to the holder
get_column_lineage_unfiltered(s, exclude_subquery) ==
    IF HolderMissing(s) THEN Outcome(s, Raise("AttributeError"))
    ELSE Outcome(s, Return(SortPaths(
            holder_get_column_lineage(s.sql_holder, FALSE))))

get_column_lineage(s, exclude_subquery) ==
    IF HolderMissing(s) THEN Outcome(s, Raise("AttributeError"))
    ELSE Outcome(s, Return(SortPaths(
            holder_get_column_lineage(s.sql_holder, exclude_subquery))))

\* runner.py line 115: the node name the column export is cut down to
HardCodedNode == Chars("dwd.main_transactions_stg.id")

to_cytoscape(s, level) ==
    IF HolderMissing(s) THEN Outcome(s, Raise("AttributeError"))
    ELSE IF level = "COLUMN"
    THEN LET edges == s.sql_holder.column_edges
             cols == ColumnNodes(s.sql_holder)
             hit == {n \in cols : ColumnStr(n) = HardCodedNode}
         IN  IF hit # {}
             THEN LET n == CHOOSE x \in hit : TRUE
                      keep == Ancestors(edges, n) \cup {n}
                  IN  Outcome(s, Return(export_column_graph(keep,
                        {e \in edges : e[1] \in keep /\ e[2] \in keep})))
             ELSE Outcome(s, Return(export_column_graph(cols, edges)))
    ELSE Outcome(s, Return(export_table_graph(TableNodes(s.sql_holder),
                                              s.sql_holder.table_edges)))

(***************************************************************************)
(* The method keys: a public method with its arguments.                    *)
(***************************************************************************)
LazyKeys ==
    {"__str__", "to_cytoscape:TABLE", "to_cytoscape:COLUMN", "statements",
     "source_tables", "target_tables", "intermediate_tables",
     "get_column_lineage:True", "get_column_lineage:False"}

RECURSIVE lazy_method(_, _)

\* runner.py lines 72-103.  The summary text is kept as its parts: the
\* statement count, the three table lists and, when verbose, one entry per
\* statement holder: the statement as shown and the holder's content.  Every self.<accessor> in the body goes through the
\* accessor's own lazy wrapper.
__str__(s) ==
    LET c1 == lazy_method("statements", s)
        c2 == lazy_method("source_tables", c1.self)
        c3 == lazy_method("target_tables", c2.self)
        c4 == lazy_method("intermediate_tables", c3.self)
        c5 == IF c4.result.val # <<>>
              THEN lazy_method("intermediate_tables", c4.self) ELSE c4
    IN  IF c1.result.kind = "raise" THEN c1
        ELSE IF c2.result.kind = "raise" THEN c2
        ELSE IF c3.result.kind = "raise" THEN c3
        ELSE IF c4.result.kind = "raise" THEN c4
        ELSE IF c5.result.kind = "raise" THEN c5
        ELSE Outcome(c5.self, Return(
                [count |-> Len(c1.result.val),
                 source |-> c2.result.val,
                 target |-> c3.result.val,
                 intermediate |-> c5.result.val,
                 detail |->
                    IF verbose
                    THEN [i \in 1..Len(c5.self.stmt_holders) |->
                            [statement |-> stmt_short(c1.result.val[i]),
                             content |-> c5.self.stmt_holders[i]]]
                    ELSE <<>>]))

\* the method a key names, applied to the runner: the methods that call
\* no other method of the runner, and all of them
accessor(key, s) ==
    CASE key = "to_cytoscape:TABLE" -> to_cytoscape(s, "TABLE")
      [] key = "to_cytoscape:COLUMN" -> to_cytoscape(s, "COLUMN")
      [] key = "statements" -> statements(s)
      [] key = "source_tables" -> source_tables(s)
      [] key = "target_tables" -> target_tables(s)
      [] key = "intermediate_tables" -> intermediate_tables(s)
      [] key = "get_column_lineage:True" -> get_column_lineage(s, TRUE)
      [] key = "get_column_lineage:False" -> get_column_lineage(s, FALSE)

func(key, s) == IF key = "__str__" THEN __str__(s) ELSE accessor(key, s)

\* lazy_method without the test of _evaluated: every call evaluates
lazy_method_unguarded(key, s) ==
    LET e == _eval(s)
    IN  IF e.raised # "none" THEN Outcome(e.self, Raise(e.raised))
        ELSE func(key, e.self)

\* lazy_method returning from the evaluating call without calling the method
lazy_method_no_call(key, s) ==
    IF ~s.evaluated
    THEN LET e == _eval(s)
         IN  IF e.raised # "none" THEN Outcome(e.self, Raise(e.raised))
             ELSE Outcome(e.self, None)
    ELSE func(key, s)

\* runner.py lines 22-29: evaluate on first use, then call the method; an
\* exception of _eval leaves the wrapper before the method is called
lazy_method(key, s) ==
    IF ~s.evaluated
    THEN LET e == _eval(s)
         IN  IF e.raised # "none" THEN Outcome(e.self, Raise(e.raised))
             ELSE func(key, e.self)
    ELSE func(key, s)

\* draw discarding the evaluation when it sets its options
draw_reset(s, d) ==
    LET o == s.draw_options
        unset == "f" \notin DOMAIN o \/ o["f"] = "None"
        keys == (DOMAIN o \ {"f"}) \cup {"e", "dialect"}
        o2 == [k \in keys |->
                IF k = "e" THEN "self._sql"
                ELSE IF k = "dialect" THEN d ELSE o[k]]
    IN  Outcome([s EXCEPT !.draw_options = IF unset THEN o2 ELSE o,
                          !.evaluated = FALSE], None)

\* runner.py lines 125-134; draw_lineage_graph itself is the external
\* visualizer and returns nothing
draw(s, d) ==
    LET o == s.draw_options
        unset == "f" \notin DOMAIN o \/ o["f"] = "None"
        keys == (DOMAIN o \ {"f"}) \cup {"e", "dialect"}
        o2 == [k \in keys |->
                IF k = "e" THEN "self._sql"
                ELSE IF k = "dialect" THEN d ELSE o[k]]
    IN  Outcome([s EXCEPT !.draw_options = IF unset THEN o2 ELSE o], None)

\* runner.py lines 175-180
print_column_lineage(s) ==
    LET c == lazy_method("get_column_lineage:True", s)
    IN  IF c.result.kind = "raise" THEN c ELSE Outcome(c.self, None)

\* runner.py lines 182-186
print_table_lineage(s) ==
    LET c == lazy_method("__str__", s)
    IN  IF c.result.kind = "raise" THEN c ELSE Outcome(c.self, None)

(***************************************************************************)
(* The state after LineageRunner.__init__ (runner.py lines 55-70).         *)
(***************************************************************************)
Callers == 1..NumCallers

Constructed ==
    /\ evaluated = FALSE
    /\ stmt = <<>>
    /\ stmt_holders = <<>>
    /\ sql_holder = NoHolder
    /\ warned = IF dialect = SQLPARSE_DIALECT THEN {"DeprecationWarning"} ELSE {}
    /\ evalCount = 0
    /\ consulted = {}
    /\ accessed = FALSE
    /\ lastCall = "none"
    /\ result = Uncalled
    /\ first = Uncalled
    /\ repeated = FALSE
    /\ pc = [c \in Callers |-> "idle"]
    /\ local = [c \in Callers |-> "none"]

(***************************************************************************)
(* A public call made by a single caller, from entry to return.            *)
(***************************************************************************)
Commit(s) ==
    /\ evaluated' = s.evaluated
    /\ stmt' = s.stmt
    /\ stmt_holders' = s.stmt_holders
    /\ sql_holder' = s.sql_holder
    /\ draw_options' = s.draw_options
    /\ warned' = s.warned
    /\ evalCount' = s.evalCount
    /\ consulted' = s.consulted

Done(key, o) ==
    /\ Commit(o.self)
    /\ result' = o.result
    /\ lastCall' = key
    /\ accessed' = (accessed \/ key # "draw")
    /\ first' = IF key = watch /\ first.kind = "uncalled" THEN o.result ELSE first
    /\ repeated' = (repeated \/ (key = watch /\ first.kind # "uncalled"))
    /\ UNCHANGED <<config, watch, pc, local>>

\* a runner that keeps failing is evaluated again by every call; the model
\* follows it for MaxEvals evaluations
MayCall == evalCount < MaxEvals

Str == MayCall /\ Done("__str__", lazy_method("__str__", Self))

ToCytoscapeTable ==
    MayCall /\ Done("to_cytoscape:TABLE", lazy_method("to_cytoscape:TABLE", Self))

ToCytoscapeColumn ==
    MayCall /\ Done("to_cytoscape:COLUMN", lazy_method("to_cytoscape:COLUMN", Self))

Statements == MayCall /\ Done("statements", lazy_method("statements", Self))

SourceTables ==
    MayCall /\ Done("source_tables", lazy_method("source_tables", Self))

TargetTables ==
    MayCall /\ Done("target_tables", lazy_method("target_tables", Self))

IntermediateTables ==
    MayCall /\ Done("intermediate_tables", lazy_method("intermediate_tables", Self))

GetColumnLineage ==
    MayCall /\ Done("get_column_lineage:True",
                    lazy_method("get_column_lineage:True", Self))

GetColumnLineageAll ==
    MayCall /\ Done("get_column_lineage:False",
                    lazy_method("get_column_lineage:False", Self))

Draw == MayCall /\ \E d \in {"ansi", "tsql"} : Done("draw", draw(Self, d))

PrintColumnLineage ==
    MayCall /\ Done("print_column_lineage", print_column_lineage(Self))

PrintTableLineage ==
    MayCall /\ Done("print_table_lineage", print_table_lineage(Self))

(***************************************************************************)
(* Life-cycle runs: short texts with parseable and unparseable statements, *)
(* comments and white space, and every public method.                      *)
(***************************************************************************)
T1 == "<default>.tab1"

T2 == "<default>.tab2"

T3 == "<default>.tab3"

InsertSelect(target, source, name) ==
    Body(AnalyzerNames, {source} \cap Tables, {target},
         {<<Col(source, name), Col(target, name)>>}, {})

Segments ==
    {<<InsertSelect(T2, T1, "a"), Semi>>,
     <<Comment, InsertSelect(T3, T2, "a"), Semi>>,
     <<Body({}, {}, {}, {}, {}), Semi>>,
     <<WhiteSpace>>}

RECURSIVE Texts(_, _)
Texts(segments, n) ==
    IF n = 0 THEN {<<>>}
    ELSE Texts(segments, n - 1)
            \cup {t \o g : t \in Texts(segments, n - 1), g \in segments}

\* the sets of paths the holder of a run hands to sorted(): those of
\* get_column_lineage(True) and get_column_lineage(False) when the
\* evaluation e of its text succeeds, none when it fails
RunPathSets(e) ==
    IF e.raised # "none" THEN {}
    ELSE {holder_get_column_lineage(e.self.sql_holder, x) : x \in BOOLEAN}

\* what a hash seed can settle for a run: an iteration order for each of
\* its sets of paths
HashSeeds(sets) ==
    {h \in [sets -> UNION {ReadingOrders(S) : S \in sets}] :
        \A S \in sets : h[S] \in ReadingOrders(S)}

\* the runner as constructed from one of the given inputs, in a process
\* started with one of the hash seeds
Start(texts, dialects, verboses, providers, flags, watched) ==
    /\ sql \in texts
    /\ dialect \in dialects
    /\ verbose \in verboses
    /\ metadata_provider \in providers
    /\ TSQL_NO_SEMICOLON \in flags
    /\ draw_options = <<>>
    /\ watch \in watched
    /\ Constructed
    /\ \E e \in {_eval(Self)} :
          \E sets \in {RunPathSets(e)} : hashseed \in HashSeeds(sets)

Init ==
    Start(Texts(Segments, MaxSegments), {SQLPARSE_DIALECT, "ansi"}, BOOLEAN,
          {DummyMetaDataProvider}, {FALSE}, {"statements"})

Next ==
    \/ Str
    \/ ToCytoscapeTable
    \/ ToCytoscapeColumn
    \/ Statements
    \/ SourceTables
    \/ TargetTables
    \/ IntermediateTables
    \/ GetColumnLineage
    \/ GetColumnLineageAll
    \/ Draw
    \/ PrintColumnLineage
    \/ PrintTableLineage

Spec == Init /\ [][Next]_vars

(***************************************************************************)
(* What the input of the run is, as the analyzer sees it.                  *)
(***************************************************************************)
\* the statements the run is split into
RunStatements ==
    IF TSQL_NO_SEMICOLON /\ dialect = "tsql"
    THEN split_tsql(strip(sql)) ELSE split(strip(sql))

\* every statement of the run parses
SqlParses ==
    \A i \in DOMAIN RunStatements :
        analyze(Analyzer, RunStatements[i]).raised = "none"

\* the statement fact at index i of a run that parses
Fact(i) == analyze(Analyzer, RunStatements[i]).holder

AccessorCalls == LazyKeys \cup {"print_column_lineage", "print_table_lineage"}

(***************************************************************************)
(* C1.  On a runner whose SQL parses, whatever accessors are called one    *)
(* after another, _eval runs exactly once, during the first accessor call: *)
(* it has not run before any accessor is called, and it has run once after *)
(* every later call, the accessors called inside __str__ included.         *)
(***************************************************************************)
C1_EvalRunsOnce ==
    SqlParses =>
        /\ evalCount = (IF accessed THEN 1 ELSE 0)
        /\ evaluated = accessed

\* __str__ (which calls four accessors itself) returned after an earlier
\* call of statements(), on a run of two statements
C1_Witness ==
    /\ SqlParses
    /\ Len(stmt) = 2
    /\ first.kind = "return"
    /\ lastCall = "__str__"
    /\ result.kind = "return"
    /\ evalCount = 1

(***************************************************************************)
(* C2.  When some statement of the run fails to parse, every accessor call *)
(* on the runner ends in ParseError, the first call and every later one,   *)
(* and the runner never becomes evaluated nor holds an aggregated holder.  *)
(***************************************************************************)
C2_ParseErrorEveryCall ==
    ~SqlParses =>
        /\ lastCall \in AccessorCalls => Same(result, Raise("ParseError"))
        /\ ~evaluated
        /\ ~sql_holder.present

\* the second statement of two is the one that fails, and a second accessor
\* call has ended in ParseError as well
C2_Witness ==
    /\ Len(RunStatements) = 2
    /\ analyze(Analyzer, RunStatements[1]).raised = "none"
    /\ analyze(Analyzer, RunStatements[2]).raised = "ParseError"
    /\ evalCount = 2
    /\ lastCall = "source_tables"
    /\ Same(result, Raise("ParseError"))

(***************************************************************************)
(* Repeated calls: the same runs, with any one accessor watched.  The      *)
(* result of its first call is kept and compared with its later calls,     *)
(* whatever is called in between.                                          *)
(***************************************************************************)
InitIdem ==
    Start(Texts(Segments \ {<<WhiteSpace>>}, MaxSegments), {"ansi"}, BOOLEAN,
          {DummyMetaDataProvider}, {FALSE}, LazyKeys)

SpecIdem == InitIdem /\ [][Next]_vars

(***************************************************************************)
(* C8.  A repeated call of an accessor with the same arguments returns (or *)
(* raises) what its first call did, whatever calls were made in between,   *)
(* draw() included.                                                        *)
(***************************************************************************)
C8_RepeatedCallSameResult ==
    (lastCall = watch /\ first.kind # "uncalled") => Same(result, first)

\* get_column_lineage() repeated after draw(), with a path to compare
C8_Witness ==
    /\ watch = "get_column_lineage:True"
    /\ lastCall = watch
    /\ repeated
    /\ "e" \in DOMAIN draw_options
    /\ result.kind = "return"
    /\ result.val # <<>>

(***************************************************************************)
(* Concurrent callers.  Each caller calls one accessor of the same runner; *)
(* its call is the steps of lazy_method and _eval, and the callers' steps  *)
(* interleave.  The code takes no lock anywhere on this path.              *)
(***************************************************************************)
ConcurrentKeys == {"statements", "source_tables", "get_column_lineage:True"}

Goto(c, label) == pc' = [pc EXCEPT ![c] = label]

Observed(c, r) ==
    /\ result' = r
    /\ lastCall' = local[c]
    /\ accessed' = TRUE
    /\ first' = IF local[c] = watch /\ first.kind = "uncalled" THEN r ELSE first
    /\ repeated' = (repeated \/ (local[c] = watch /\ first.kind # "uncalled"))

\* the caller enters the wrapper (runner.py lines 23-24)
Enter(c) ==
    /\ pc[c] = "idle"
    /\ \E key \in ConcurrentKeys : local' = [local EXCEPT ![c] = key]
    /\ Goto(c, "check")
    /\ UNCHANGED <<config, draw_options, evaluated, stmt, stmt_holders,
                   sql_holder, warned, evalCount, consulted, accessed,
                   lastCall, result, watch, first, repeated>>

\* runner.py line 25: the test of self._evaluated
Check(c) ==
    /\ pc[c] = "check"
    /\ Goto(c, IF ~evaluated THEN "split" ELSE "func")
    /\ UNCHANGED <<config, draw_options, evaluated, stmt, stmt_holders,
                   sql_holder, warned, evalCount, consulted, accessed,
                   lastCall, result, watch, first, repeated, local>>

\* runner.py lines 189-201
EvalSplit(c) ==
    /\ pc[c] = "split"
    /\ Commit(SplitStep(Self))
    /\ Goto(c, "analyze")
    /\ UNCHANGED <<config, accessed, lastCall, result, watch, first, repeated,
                   local>>

\* runner.py line 203; a ParseError leaves _eval and the wrapper
EvalAnalyze(c) ==
    /\ pc[c] = "analyze"
    /\ LET a == AnalyzeStep(Self)
       IN  /\ Commit(a.self)
           /\ IF a.raised # "none"
              THEN /\ Observed(c, Raise(a.raised))
                   /\ Goto(c, "done")
              ELSE /\ Goto(c, "aggregate")
                   /\ UNCHANGED <<accessed, lastCall, result, first, repeated>>
    /\ UNCHANGED <<config, watch, local>>

\* runner.py lines 204-206
EvalAggregate(c) ==
    /\ pc[c] = "aggregate"
    /\ Commit(AggregateStep(Self))
    /\ Goto(c, "flag")
    /\ UNCHANGED <<config, accessed, lastCall, result, watch, first, repeated,
                   local>>

\* runner.py line 207
EvalFlag(c) ==
    /\ pc[c] = "flag"
    /\ Commit(FlagStep(Self))
    /\ Goto(c, "func")
    /\ UNCHANGED <<config, accessed, lastCall, result, watch, first, repeated,
                   local>>

\* runner.py line 27: the wrapped method itself (none of ConcurrentKeys
\* calls another method)
CallFunc(c) ==
    /\ pc[c] = "func"
    /\ LET o == accessor(local[c], Self)
       IN  /\ Commit(o.self)
           /\ Observed(c, o.result)
    /\ Goto(c, "done")
    /\ UNCHANGED <<config, watch, local>>

InitConc ==
    Start(Texts(Segments, MaxSegments), {"ansi"}, {FALSE},
          {DummyMetaDataProvider}, {FALSE}, {"statements"})

NextConc ==
    \E c \in Callers :
        \/ Enter(c)
        \/ Check(c)
        \/ EvalSplit(c)
        \/ EvalAnalyze(c)
        \/ EvalAggregate(c)
        \/ EvalFlag(c)
        \/ CallFunc(c)

SpecConc == InitConc /\ [][NextConc]_vars

(***************************************************************************)
(* C9.  When several callers call lazy accessors of one unevaluated runner *)
(* concurrently, _eval is executed once over all interleavings.            *)
(***************************************************************************)
C9_EvalOnceConcurrently == SqlParses => evalCount <= 1

(***************************************************************************)
(* Table classification runs: every run of up to MaxRun statements, each   *)
(* reading at most one and writing at most one of two tables.              *)
(***************************************************************************)
TableBodies ==
    {Body(AnalyzerNames, r, w, {}, {}) :
        r \in {{}, {T1}, {T2}}, w \in {{}, {T1}, {T2}}}
      \ {Body(AnalyzerNames, {}, {}, {}, {})}

Terminated(bodies) == {<<b, Semi>> : b \in bodies}

InitTables ==
    Start(Texts(Terminated(TableBodies), MaxRun) \ {<<>>}, {"ansi"}, {FALSE},
          {DummyMetaDataProvider}, {FALSE}, {"source_tables"})

NextTables ==
    \/ SourceTables
    \/ TargetTables
    \/ IntermediateTables
    \/ Str

SpecTables == InitTables /\ [][NextTables]_vars

\* what the three accessors of the evaluated runner return, as sets
Sources == Range(source_tables(Self).result.val)

Targets == Range(target_tables(Self).result.val)

Intermediates == Range(intermediate_tables(Self).result.val)

\* the statement at index i of the run reads / writes table t
ReadsAt(i, t) == t \in Fact(i).read

WritesAt(i, t) == t \in Fact(i).write

RunIndices == DOMAIN RunStatements

\* t is written by a statement and read by a later one
ReadAfterWrite(t) ==
    \E w \in RunIndices, r \in RunIndices : w < r /\ WritesAt(w, t) /\ ReadsAt(r, t)

(***************************************************************************)
(* C3.  A table written by the statement at index w and read by a          *)
(* statement at an index r > w is in intermediate_tables and in neither    *)
(* source_tables nor target_tables.                                        *)
(***************************************************************************)
C3_WrittenThenReadIsIntermediate ==
    evaluated =>
        \A t \in Tables :
            ReadAfterWrite(t) =>
                t \in Intermediates /\ t \notin Sources /\ t \notin Targets

\* intermediate_tables returned a table that is written, read later and
\* written once more after that
C3_Witness ==
    /\ evaluated
    /\ lastCall = "intermediate_tables"
    /\ result.kind = "return"
    /\ \E t \in Range(result.val) :
          \E w \in RunIndices, r \in RunIndices, x \in RunIndices :
              w < r /\ r < x /\ WritesAt(w, t) /\ ReadsAt(r, t) /\ WritesAt(x, t)

(***************************************************************************)
(* C4.  A table read by some statement and written by none is in           *)
(* source_tables.  A table written by some statement and not read by any   *)
(* statement after a write of it (read only before its first write, only   *)
(* in the statement that writes it, or never) is in target_tables.         *)
(***************************************************************************)
C4_SourcesAndTargets ==
    evaluated =>
        \A t \in Tables :
            /\ ((\E r \in RunIndices : ReadsAt(r, t))
                    /\ (\A w \in RunIndices : ~WritesAt(w, t)))
                => t \in Sources
            /\ ((\E w \in RunIndices : WritesAt(w, t)) /\ ~ReadAfterWrite(t))
                => t \in Targets

\* source_tables returned one table while the other table, read by the
\* first statement and written by the second, is a target
C4_Witness ==
    /\ evaluated
    /\ lastCall = "source_tables"
    /\ result.kind = "return"
    /\ Len(result.val) = 1
    /\ \E t \in Targets :
          \E r \in RunIndices, w \in RunIndices :
              r < w /\ ReadsAt(r, t) /\ WritesAt(w, t)

(***************************************************************************)
(* C5.  source_tables, target_tables and intermediate_tables are pairwise  *)
(* disjoint, also for a table read and written by one statement and for a  *)
(* table read before it is first written.                                  *)
(***************************************************************************)
C5_ClassesDisjoint ==
    evaluated =>
        /\ Sources \cap Targets = {}
        /\ Sources \cap Intermediates = {}
        /\ Targets \cap Intermediates = {}

\* a run in which one statement reads and writes the same table, and the
\* summary lists both a source and a target
C5_Witness ==
    /\ evaluated
    /\ lastCall = "__str__"
    /\ result.kind = "return"
    /\ result.val.source # <<>>
    /\ result.val.target # <<>>
    /\ \E i \in RunIndices, t \in Tables : ReadsAt(i, t) /\ WritesAt(i, t)

(***************************************************************************)
(* Column lineage runs: every run of up to MaxColRun statements            *)
(* INSERT INTO target SELECT a FROM source, the source a table or a        *)
(* subquery, the target a table (the source itself included).              *)
(***************************************************************************)
ColumnBodies ==
    {InsertSelect(t, p, "a") : t \in {T1, T2, T3}, p \in {T1, T2, T3, "sq"}}

InitColumns ==
    Start(Texts(Terminated(ColumnBodies), MaxColRun) \ {<<>>}, {"ansi"}, {FALSE},
          {DummyMetaDataProvider}, {FALSE}, {"get_column_lineage:True"})

NextColumns ==
    \/ GetColumnLineage
    \/ GetColumnLineageAll
    \/ PrintColumnLineage

SpecColumns == InitColumns /\ [][NextColumns]_vars

\* what get_column_lineage returns on the evaluated runner, as a set
ColumnLineage(exclude_subquery) ==
    Range(get_column_lineage(Self, exclude_subquery).result.val)

\* the aggregated column graph has no lineage edge into / out of c
NoIncoming(c) == Preds(sql_holder.column_edges, c) = {}

NoOutgoing(c) == Succs(sql_holder.column_edges, c) = {}

\* the chains the claim is about: A -> B from one statement, B -> C from a
\* later one, A without incoming and C without outgoing edge
Chains ==
    {<<e[1], e[2], f[2]>> :
        <<e, f>> \in
            {x \in sql_holder.column_edges \X sql_holder.column_edges :
                /\ x[1][2] = x[2][1]
                /\ NoIncoming(x[1][1])
                /\ NoOutgoing(x[2][2])
                /\ \E i \in RunIndices, j \in RunIndices :
                      i < j /\ x[1] \in Fact(i).edges /\ x[2] \in Fact(j).edges}}

(***************************************************************************)
(* C6 as stated.  For every chain A -> B (one statement), B -> C (a later  *)
(* statement), A without incoming and C without outgoing lineage edge,     *)
(* get_column_lineage() contains the path [A, B, C].                       *)
(***************************************************************************)
C6_ChainIsReturned ==
    evaluated => \A p \in Chains : p \in ColumnLineage(TRUE)

(***************************************************************************)
(* C6 as amended.  For every such chain, get_column_lineage() contains the *)
(* path [A, B, C] when A is not a subquery-derived column, and             *)
(* get_column_lineage(exclude_subquery=False) contains it in every case.   *)
(***************************************************************************)
C6_BaseChainIsReturned ==
    evaluated =>
        \A p \in Chains :
            /\ ~IsSubqueryColumn(p[1]) => p \in ColumnLineage(TRUE)
            /\ p \in ColumnLineage(FALSE)

\* get_column_lineage() returned a chain of three columns of three tables
C6_Witness ==
    /\ evaluated
    /\ lastCall = "get_column_lineage:True"
    /\ result.kind = "return"
    /\ \E p \in Chains :
          /\ ~IsSubqueryColumn(p[1])
          /\ \E i \in DOMAIN result.val : result.val[i] = p

(***************************************************************************)
(* C7.  Every path get_column_lineage(exclude_subquery=True) returns       *)
(* starts at an ultimate source column that is not subquery-derived; a     *)
(* path that starts at a subquery-derived column is dropped as a whole:    *)
(* neither it nor any shortened form of it is returned.                    *)
(***************************************************************************)
ProperSuffixes(p) == {SubSeq(p, k, Len(p)) : k \in 2..Len(p)}

C7_SubqueryPathsDropped ==
    evaluated =>
        /\ \A p \in ColumnLineage(TRUE) :
              ~IsSubqueryColumn(p[1]) /\ NoIncoming(p[1])
        /\ \A q \in ColumnLineage(FALSE) :
              IsSubqueryColumn(q[1]) =>
                  /\ q \notin ColumnLineage(TRUE)
                  /\ ProperSuffixes(q) \cap ColumnLineage(TRUE) = {}

\* get_column_lineage() returned a path while a path of three columns that
\* starts in the subquery was dropped
C7_Witness ==
    /\ evaluated
    /\ lastCall = "get_column_lineage:True"
    /\ result.kind = "return"
    /\ result.val # <<>>
    /\ \E q \in ColumnLineage(FALSE) : IsSubqueryColumn(q[1]) /\ Len(q) = 3

(***************************************************************************)
(* Wildcard runs: every run of up to MaxWildRun statements, each           *)
(* INSERT INTO T SELECT * FROM S or INSERT INTO T SELECT a FROM S over     *)
(* three tables, with a provider that knows none, some or all of them.     *)
(***************************************************************************)
WildBodies ==
    {Body(AnalyzerNames, {p}, {t}, {}, {<<p, t>>}) :
        t \in {T1, T2, T3}, p \in {T1, T2, T3}}
      \cup {InsertSelect(t, p, "a") : t \in {T2, T3}, p \in {T1, T2, T3}}

Providers ==
    {DummyMetaDataProvider,
     [t \in {T1} |-> <<"a", "b">>],
     [t \in {T1, T2} |-> IF t = T1 THEN <<"a">> ELSE <<"b", "a">>],
     [t \in {T1, T2, T3} |-> <<"a", "b">>]}

InitWild ==
    Start(Texts(Terminated(WildBodies), MaxWildRun) \ {<<>>}, {"ansi"}, {FALSE},
          Providers, {FALSE}, {"get_column_lineage:True"})

NextWild ==
    \/ GetColumnLineage
    \/ GetColumnLineageAll
    \/ ToCytoscapeColumn

SpecWild == InitWild /\ [][NextWild]_vars

\* the aggregated lineage edges from a column of table p to a column of t
Between(p, t) ==
    {e \in sql_holder.column_edges : e[1].parent = p /\ e[2].parent = t}

\* the edges from p to t that statements of the run state column by column
Explicit(p, t) ==
    UNION {{e \in Fact(i).edges : e[1].parent = p /\ e[2].parent = t} :
            i \in RunIndices}

\* the hops from a column of p to a column of t on the returned paths
Hops(p, t) ==
    {e \in UNION {{<<q[k], q[k + 1]>> : k \in 1..(Len(q) - 1)} :
                    q \in ColumnLineage(FALSE)} :
        e[1].parent = p /\ e[2].parent = t}

Wildcards == UNION {Fact(i).wild : i \in RunIndices}

(***************************************************************************)
(* C10.  For a statement that writes SELECT * FROM S into T: when the      *)
(* provider returns the columns of S, the aggregated graph gets exactly    *)
(* the edges S.c -> T.c, one per returned name c, and no placeholder; when *)
(* the provider has no entry for S, it gets the unresolved placeholder     *)
(* S.* -> T.* and nothing else, and get_column_lineage returns no resolved *)
(* hop from S to T for that statement.                                     *)
(***************************************************************************)
C10_WildcardExpansion ==
    evaluated =>
        \A w \in Wildcards :
            IF HasEntry(metadata_provider, w[1])
            THEN Between(w[1], w[2]) \ Explicit(w[1], w[2])
                    = {<<Col(w[1], c), Col(w[2], c)>> :
                          c \in Range(columnsOf(metadata_provider, w[1]))}
                        \ Explicit(w[1], w[2])
            ELSE /\ Between(w[1], w[2]) \ Explicit(w[1], w[2])
                      = {<<Col(w[1], Star), Col(w[2], Star)>>}
                 /\ Hops(w[1], w[2]) \ Explicit(w[1], w[2])
                      \subseteq {<<Col(w[1], Star), Col(w[2], Star)>>}

\* SELECT * FROM tab1, whose two columns the provider returns, and
\* SELECT * FROM tab2, which the provider does not know, in one run:
\* get_column_lineage() returned the two resolved edges and the placeholder
C10_Witness ==
    /\ evaluated
    /\ lastCall = "get_column_lineage:True"
    /\ result.kind = "return"
    /\ <<T1, T2>> \in Wildcards
    /\ <<T2, T3>> \in Wildcards
    /\ HasEntry(metadata_provider, T1)
    /\ ~HasEntry(metadata_provider, T2)
    /\ {<<Col(T1, "a"), Col(T2, "a")>>, <<Col(T1, "b"), Col(T2, "b")>>,
        <<Col(T2, Star), Col(T3, Star)>>} \subseteq Range(result.val)

(***************************************************************************)
(* What the run would aggregate to had every provider lookup succeeded.    *)
(***************************************************************************)
Resolved ==
    SQLLineageHolder_of([t \in Tables |-> <<"a", "b">>], stmt_holders)

\* the wildcards of the run whose table the provider does not know
FailedLookups == {w \in Wildcards : ~HasEntry(metadata_provider, w[1])}

(***************************************************************************)
(* C11.  A provider miss during wildcard expansion does not fail the run:  *)
(* the accessor call that evaluates returns, the runner is evaluated, the  *)
(* wildcard is in the column graph as the unresolved placeholder edge      *)
(* S.* -> T.*, and the table-level graph and the three table sets are what *)
(* they are when every lookup succeeds.                                    *)
(***************************************************************************)
C11_ProviderMissTolerated ==
    (accessed /\ FailedLookups # {}) =>
        /\ evaluated
        /\ result.kind = "return"
        /\ \A w \in FailedLookups :
              <<Col(w[1], Star), Col(w[2], Star)>> \in sql_holder.column_edges
        /\ LET r == Resolved
           IN  /\ sql_holder.table_edges = r.table_edges
               /\ TableNodes(sql_holder) = TableNodes(r)
               /\ Sources = holder_source_tables(r)
               /\ Targets = holder_target_tables(r)
               /\ Intermediates = holder_intermediate_tables(r)

\* two wildcards over tables the provider does not know, chained through
\* tab2: the placeholders are returned as one path and tab2 is intermediate
C11_Witness ==
    /\ evaluated
    /\ metadata_provider = DummyMetaDataProvider
    /\ FailedLookups = {<<T1, T2>>, <<T2, T3>>}
    /\ lastCall = "get_column_lineage:True"
    /\ result.kind = "return"
    /\ <<Col(T1, Star), Col(T2, Star), Col(T3, Star)>> \in Range(result.val)
    /\ Intermediates = {T2}

(***************************************************************************)
(* Batch-splitting runs: texts whose statements end with the terminator or *)
(* run into the next statement, under every dialect family and both values *)
(* of TSQL_NO_SEMICOLON.                                                   *)
(***************************************************************************)
FlagSegments ==
    {<<InsertSelect(T2, T1, "a")>>,
     <<InsertSelect(T3, T2, "a"), Semi>>,
     <<Comment>>}

InitFlag ==
    Start(Texts(FlagSegments, MaxSegments), {SQLPARSE_DIALECT, "ansi", "tsql"},
          {FALSE}, {DummyMetaDataProvider}, BOOLEAN, {"statements"})

NextFlag ==
    \/ Statements
    \/ SourceTables
    \/ TargetTables
    \/ IntermediateTables
    \/ GetColumnLineage

SpecFlag == InitFlag /\ [][NextFlag]_vars

\* the run with the flag unset: the standard splitter (runner.py line 201),
\* every statement analyzed, the holders aggregated
StandardStatements == split(strip(sql))

StandardParses ==
    \A i \in DOMAIN StandardStatements :
        analyze(Analyzer, StandardStatements[i]).raised = "none"

StandardHolders ==
    [i \in DOMAIN StandardStatements |->
        analyze(Analyzer, StandardStatements[i]).holder]

StandardSelf ==
    [Self EXCEPT !.stmt = StandardStatements,
                 !.stmt_holders = StandardHolders,
                 !.sql_holder = SQLLineageHolder_of(metadata_provider,
                                                    StandardHolders)]

BatchMode == TSQL_NO_SEMICOLON /\ dialect = "tsql"

(***************************************************************************)
(* C12.  With TSQL_NO_SEMICOLON set and a dialect other than tsql, the     *)
(* evaluation warns, and the statements and every accessor's result are    *)
(* those of the standard splitter, as in the run with the flag unset (the  *)
(* call fails only where that run fails, with ParseError); the batch       *)
(* splitter is used exactly when the flag is set and the dialect is tsql.  *)
(***************************************************************************)
C12_FlagIgnoredOutsideTsql ==
    accessed =>
        /\ ("TSQL_NO_SEMICOLON ignored" \in warned)
              = (TSQL_NO_SEMICOLON /\ dialect # "tsql")
        /\ stmt = (IF BatchMode THEN split_tsql(strip(sql))
                   ELSE StandardStatements)
        /\ ~BatchMode =>
              IF StandardParses
              THEN /\ evaluated
                   /\ stmt_holders = StandardHolders
                   /\ Same(result, accessor(lastCall, StandardSelf).result)
              ELSE /\ ~evaluated
                   /\ Same(result, Raise("ParseError"))

\* the flag is set under ansi: the warning is out and statements() returned
\* the two statements of the standard splitter
C12_Witness ==
    /\ TSQL_NO_SEMICOLON
    /\ dialect = "ansi"
    /\ "TSQL_NO_SEMICOLON ignored" \in warned
    /\ lastCall = "statements"
    /\ result.kind = "return"
    /\ Len(result.val) = 2
    /\ evaluated

(***************************************************************************)
(* Sorting runs: runs of up to MaxColRun statements                        *)
(* INSERT INTO target SELECT a FROM source, with the three table accessors *)
(* and both forms of get_column_lineage called.                            *)
(***************************************************************************)
SortBodies ==
    {InsertSelect(t, p, "a") : t \in {T2, T3}, p \in {T1, T2, "sq"}}

InitSorted ==
    Start(Texts(Terminated(SortBodies), MaxColRun) \ {<<>>}, {"ansi"}, {FALSE},
          {DummyMetaDataProvider}, {FALSE}, {"get_column_lineage:False"})

NextSorted ==
    \/ SourceTables
    \/ TargetTables
    \/ IntermediateTables
    \/ GetColumnLineage
    \/ GetColumnLineageAll

SpecSorted == InitSorted /\ [][NextSorted]_vars

\* the three table sets of the holder, and what the accessors return
TableSets ==
    {[set |-> holder_source_tables(sql_holder),
      list |-> source_tables(Self).result.val],
     [set |-> holder_target_tables(sql_holder),
      list |-> target_tables(Self).result.val],
     [set |-> holder_intermediate_tables(sql_holder),
      list |-> intermediate_tables(Self).result.val]}

\* the two path sets of the holder, and what get_column_lineage returns
PathSets ==
    {[set |-> holder_get_column_lineage(sql_holder, x),
      list |-> get_column_lineage(Self, x).result.val] : x \in BOOLEAN}

\* the pair (canonical string of the last column, of the first column)
EndpointKey(p) == <<ColumnStr(p[Len(p)]), ColumnStr(p[1])>>

TablesAscend(l) ==
    \A i \in DOMAIN l, j \in DOMAIN l :
        i < j => StrLess(TableStr(l[i]), TableStr(l[j]))

PathsNonDecreasing(l) ==
    \A i \in DOMAIN l, j \in DOMAIN l :
        i < j => ~KeyLess(EndpointKey(l[j]), EndpointKey(l[i]))

(***************************************************************************)
(* C13 as stated.  Every list accessor returns one determined sequence,    *)
(* whatever order the holder's sets iterate in: any two iteration orders   *)
(* of a table set, and any two of a path set, sort to the same list.       *)
(***************************************************************************)
C13_SortedDeterministically ==
    evaluated =>
        /\ \A x \in TableSets :
              \A o1 \in IterationOrders(x.set), o2 \in IterationOrders(x.set) :
                  SortedTables(o1) = SortedTables(o2)
        /\ \A x \in PathSets :
              \A o1 \in IterationOrders(x.set), o2 \in IterationOrders(x.set) :
                  SortedPaths(o1) = SortedPaths(o2)

(***************************************************************************)
(* C13 as amended.  source_tables, target_tables and intermediate_tables   *)
(* each return the one list of the set in strictly increasing order of the *)
(* canonical string, whatever the iteration order.  get_column_lineage     *)
(* returns the paths of the set, each once, in non-decreasing order of the *)
(* pair (last column, first column), whatever the iteration order; paths   *)
(* with the same first and last column follow each other in the order the  *)
(* set is iterated in.                                                     *)
(***************************************************************************)
C13_SortedByKey ==
    evaluated =>
        /\ \A x \in TableSets :
              /\ TablesAscend(x.list)
              /\ \A o \in IterationOrders(x.set) : SortedTables(o) = x.list
        /\ \A x \in PathSets :
              /\ PathsNonDecreasing(x.list)
              /\ x.list \in {SortedPaths(o) : o \in IterationOrders(x.set)}
              /\ \A o \in IterationOrders(x.set) :
                    /\ PathsNonDecreasing(SortedPaths(o))
                    /\ Range(SortedPaths(o)) = x.set
                    /\ Len(SortedPaths(o)) = Cardinality(x.set)

\* get_column_lineage() returned two paths with the same first and last
\* column, the one of three columns before the one of two
C13_Witness ==
    /\ evaluated
    /\ lastCall = "get_column_lineage:True"
    /\ result.kind = "return"
    /\ \E i \in DOMAIN result.val, j \in DOMAIN result.val :
          /\ i < j
          /\ EndpointKey(result.val[i]) = EndpointKey(result.val[j])
          /\ Len(result.val[i]) = 3
          /\ Len(result.val[j]) = 2

(***************************************************************************)
(* C14.  A runner starts unevaluated, and once the evaluated flag is true  *)
(* no step of the runner (an accessor, draw, print_table_lineage,          *)
(* print_column_lineage) makes it false again.                             *)
(***************************************************************************)
C14_EvaluatedMonotone ==
    /\ ~evaluated
    /\ [][evaluated => evaluated']_vars

\* the runner was evaluated by statements(), then drawn, then statements()
\* was called again and print_table_lineage after it
C14_Witness ==
    /\ evaluated
    /\ evalCount = 1
    /\ repeated
    /\ "e" \in DOMAIN draw_options
    /\ lastCall = "print_table_lineage"
    /\ result.kind = "none"

(***************************************************************************)
(* Analyzer runs: texts with statements that only one of the two analyzer  *)
(* implementations parses, or both, under every dialect family and both    *)
(* values of TSQL_NO_SEMICOLON.                                            *)
(***************************************************************************)
OnlyBy(a) == Body({a}, {T1}, {T2}, {<<Col(T1, "a"), Col(T2, "a")>>}, {})

\* the statement both analyzers parse is written on two lines, once with
\* 50 characters besides the newline and once with 51
AnalyzerSegments ==
    {<<OnlyBy("sqlparse"), Semi>>,
     <<OnlyBy("sqlfluff"), Semi>>,
     <<Padded(InsertSelect(T3, T2, "a"), 51, 1), Semi>>,
     <<Padded(InsertSelect(T3, T2, "a"), 52, 1), Semi>>}

InitAnalyzer ==
    Start(Texts(AnalyzerSegments, MaxSegments),
          {SQLPARSE_DIALECT, "ansi", "tsql"}, BOOLEAN,
          {DummyMetaDataProvider}, BOOLEAN, {"statements"})

NextAnalyzer ==
    \/ Statements
    \/ SourceTables
    \/ GetColumnLineage
    \/ Str

SpecAnalyzer == InitAnalyzer /\ [][NextAnalyzer]_vars

\* the implementation the dialect string stands for
ChosenByDialect ==
    IF dialect = "non-validating" THEN "sqlparse" ELSE "sqlfluff"

(***************************************************************************)
(* C15.  The analyzer implementation a run uses is determined by the       *)
(* dialect string alone, and it is the only one the run consults: every    *)
(* statement is analyzed by it, and when it fails on a statement the call  *)
(* ends in ParseError, whether or not the other implementation parses the  *)
(* statement.                                                              *)
(***************************************************************************)
C15_OneAnalyzerPerRun ==
    accessed =>
        /\ consulted = {ChosenByDialect}
        /\ IF \A i \in DOMAIN RunStatements :
                  analyze(ChosenByDialect, RunStatements[i]).raised = "none"
           THEN /\ evaluated
                /\ result.kind = "return"
                /\ stmt_holders =
                      [i \in DOMAIN RunStatements |->
                          analyze(ChosenByDialect, RunStatements[i]).holder]
           ELSE /\ ~evaluated
                /\ Same(result, Raise("ParseError"))

\* under ansi, a run whose second statement only the other implementation
\* parses: a second call has ended in ParseError, with one analyzer consulted
C15_Witness ==
    /\ dialect = "ansi"
    /\ Len(RunStatements) = 2
    /\ analyze("sqlfluff", RunStatements[1]).raised = "none"
    /\ analyze("sqlfluff", RunStatements[2]).raised = "ParseError"
    /\ analyze("sqlparse", RunStatements[2]).raised = "none"
    /\ evalCount = 2
    /\ consulted = {"sqlfluff"}
    /\ Same(result, Raise("ParseError"))

(***************************************************************************)
(* Export runs: runs of up to MaxRun statements over tab1, tab2 and        *)
(* dwd.main_transactions_stg, carrying the columns id and a, exported at   *)
(* both levels.                                                            *)
(***************************************************************************)
ExportBodies ==
    {InsertSelect(T1, "dwd.main_transactions_stg", "id"),
     InsertSelect("dwd.main_transactions_stg", T1, "id"),
     InsertSelect(T2, T1, "id"), InsertSelect(T2, T1, "a")}

InitExport ==
    Start(Texts(Terminated(ExportBodies), MaxRun) \ {<<>>}, {"ansi"}, {FALSE},
          {DummyMetaDataProvider}, {FALSE}, {"to_cytoscape:COLUMN"})

NextExport ==
    \/ ToCytoscapeColumn
    \/ ToCytoscapeTable

SpecExport == InitExport /\ [][NextExport]_vars

(***************************************************************************)
(* C16.  to_cytoscape(level=COLUMN) returns the export of the whole column *)
(* graph: every column of the aggregated column graph is a node of the     *)
(* result and every lineage edge of it an edge of the result, whatever the *)
(* columns are called; to_cytoscape(level=TABLE) returns the export of the *)
(* whole table graph.                                                      *)
(***************************************************************************)
C16_ExportIsWholeGraph ==
    /\ (evaluated /\ lastCall = "to_cytoscape:COLUMN") =>
          /\ result.kind = "return"
          /\ \A c \in ColumnNodes(sql_holder) :
                \E n \in result.val.nodes : n.id = ColumnStr(c)
          /\ \A e \in sql_holder.column_edges :
                \E x \in result.val.edges :
                    /\ x.source = ColumnStr(e[1])
                    /\ x.target = ColumnStr(e[2])
                    /\ x.type = "lineage"
          /\ result.val = export_column_graph(ColumnNodes(sql_holder),
                                              sql_holder.column_edges)
    /\ (evaluated /\ lastCall = "to_cytoscape:TABLE") =>
          /\ result.kind = "return"
          /\ result.val = export_table_graph(TableNodes(sql_holder),
                                             sql_holder.table_edges)

(***************************************************************************)
(* C18.  get_column_lineage returns on every column graph, the graphs with *)
(* cycles made by self-referencing statements included, and no path it     *)
(* returns holds the same column twice: a path is at most as long as the   *)
(* graph has columns.                                                      *)
(***************************************************************************)
HasCycle ==
    \E c \in ColumnNodes(sql_holder) : c \in Ancestors(sql_holder.column_edges, c)

Simple(path) == \A i \in DOMAIN path, j \in DOMAIN path : i # j => path[i] # path[j]

C18_TraversalTerminates ==
    evaluated =>
        /\ lastCall \in {"get_column_lineage:True", "get_column_lineage:False",
                         "print_column_lineage"}
              => result.kind \in {"return", "none"}
        /\ \A x \in BOOLEAN :
              \A path \in ColumnLineage(x) :
                  /\ Simple(path)
                  /\ Len(path) <= Cardinality(ColumnNodes(sql_holder))

\* a run with a statement that appends tab1 from itself, between a subquery
\* written into tab1 and tab1 written into another table:
\* get_column_lineage(exclude_subquery=False) returned a path through tab1
C18_Witness ==
    /\ evaluated
    /\ HasCycle
    /\ lastCall = "get_column_lineage:False"
    /\ result.kind = "return"
    /\ \E i \in DOMAIN result.val :
          /\ Len(result.val[i]) = 3
          /\ result.val[i][2] \in Ancestors(sql_holder.column_edges,
                                            result.val[i][2])

(***************************************************************************)
(* C19.  In one run the aggregator calls columnsOf at most once per table: *)
(* once for a table some wildcard of the run refers to, however many       *)
(* wildcards refer to it and whether or not the provider knows it, and     *)
(* never for any other table.                                              *)
(***************************************************************************)
WildcardTables == {w[1] : w \in Wildcards}

C19_OneLookupPerTable ==
    evaluated =>
        \A t \in Tables :
            sql_holder.lookups[t] = (IF t \in WildcardTables THEN 1 ELSE 0)

\* two statements with a wildcard over tab1, which the provider does not
\* know: one lookup, and both placeholders returned
C19_Witness ==
    /\ evaluated
    /\ ~HasEntry(metadata_provider, T1)
    /\ Len(stmt) = 2
    /\ \A i \in RunIndices : \E w \in Fact(i).wild : w[1] = T1
    /\ sql_holder.lookups[T1] = 1
    /\ lastCall = "get_column_lineage:True"
    /\ result.kind = "return"
    /\ Len(result.val) = 2

(***************************************************************************)
(* C20.  The evaluated flag is true only after a whole evaluation: then    *)
(* the statement list, one holder per statement in statement order and the *)
(* aggregated holder are present.  On a run with a statement that fails to *)
(* parse the flag stays false and there is no aggregated holder, so every  *)
(* accessor call raises; and every accessor call on an unevaluated runner  *)
(* runs the pipeline again from the split step.                            *)
(***************************************************************************)
EvaluatedIsComplete ==
    evaluated =>
        /\ stmt = RunStatements
        /\ Len(stmt_holders) = Len(stmt)
        /\ \A i \in DOMAIN stmt : stmt_holders[i] = Fact(i)
        /\ sql_holder.present
        /\ sql_holder = SQLLineageHolder_of(metadata_provider, stmt_holders)

FailedIsNotCached ==
    ~SqlParses =>
        /\ ~evaluated
        /\ ~sql_holder.present
        /\ lastCall \in AccessorCalls => result.kind = "raise"

RetriedFromSplit ==
    (~evaluated /\ lastCall' \in AccessorCalls) =>
        /\ evalCount' = evalCount + 1
        /\ stmt' = RunStatements

C20_FlagSetLast ==
    /\ [](EvaluatedIsComplete /\ FailedIsNotCached)
    /\ [][RetriedFromSplit]_vars

\* the first of two statements fails to parse: a third accessor call has
\* run the pipeline a third time, and the statement list is all the runner
\* holds
C20_Witness ==
    /\ Len(RunStatements) = 2
    /\ analyze(Analyzer, RunStatements[1]).raised = "ParseError"
    /\ evalCount = 3
    /\ stmt = RunStatements
    /\ stmt_holders = <<>>
    /\ ~evaluated
    /\ ~sql_holder.present
    /\ lastCall = "get_column_lineage:True"
    /\ result.kind = "raise"

=============================================================================
